---- MODULE Spec2Model ----
(***************************************************************************)
(* Model of src/services/geminiService.ts: the nine operations that turn   *)
(* the text returned by the generative-language service into typed values. *)
(*                                                                         *)
(* A text is a sequence of tokens; its characters are the concatenation of *)
(* the tokens.  A JavaScript value is a record of one fixed shape (kind k, *)
(* string s, number n, object fields f, array elements a), so that any two *)
(* values can be compared.  Numbers are kept in tenths (5 stands for 0.5). *)
(***************************************************************************)
EXTENDS Integers, Sequences, FiniteSets, TLC

(* Longest response text, in tokens. *)
MaxLen == 5
(* Longest sales history and longest inventory handed to an operation. *)
MaxSales == 22
MaxProducts == 2
(* Longest customer list handed to identifyCustomerFromImage. *)
MaxCustomers == 3
(* Invocations in flight at once. *)
MaxThreads == 2
(* sales.slice(-20) and products.slice(0, 20) *)
RecentSalesWindow == 20
(* maxLength of the OTP input *)
OtpMaxLength == 4
SampleProductsWindow == 20

----------------------------------------------------------------------------
(* JavaScript values *)

JVal(k, s, n, f, a) == [k |-> k, s |-> s, n |-> n, f |-> f, a |-> a]
JUndefined == JVal("undefined", <<>>, 0, <<>>, <<>>)
JNull      == JVal("null", <<>>, 0, <<>>, <<>>)
JStr(s)    == JVal("string", s, 0, <<>>, <<>>)
JNum(n)    == JVal("number", <<>>, n, <<>>, <<>>)
JObj(f)    == JVal("object", <<>>, 0, f, <<>>)
JArr(a)    == JVal("array", <<>>, 0, <<>>, a)

(* A string literal of the source, as a value. *)
Lit(word) == JStr(<<word>>)

(* ToBoolean: undefined, null, "" and 0 are falsy; objects and arrays are truthy. *)
Truthy(v) ==
    CASE v.k = "undefined" -> FALSE
      [] v.k = "null"      -> FALSE
      [] v.k = "string"    -> v.s # <<>>
      [] v.k = "number"    -> v.n # 0
      [] OTHER             -> TRUE

(* a || b *)
Or(a, b) == IF Truthy(a) THEN a ELSE b

(* The names of the fields of an object, and v.name (undefined when absent,
   and for every value that is not an object; arrays and strings have no
   property of the names used here). *)
FieldNames(v) == {v.f[i][1] : i \in 1..Len(v.f)}
Get(v, name) ==
    IF v.k = "object" /\ name \in FieldNames(v)
    THEN (CHOOSE p \in {v.f[i] : i \in 1..Len(v.f)} : p[1] = name)[2]
    ELSE JUndefined

----------------------------------------------------------------------------
(* Texts *)

(* The marker of a fenced block: three backquote characters. *)
FENCE == "<fence>"
FMT   == "json"
(* A newline: white space for String.prototype.trim and for JSON.parse. *)
WS    == "\n"
(* U+00A0: white space for String.prototype.trim, not for JSON.parse. *)
NBSP  == "<U+00A0>"
(* A sentence of prose. *)
PROSE == "Prices dip."

D_CHECKOUT  == "{\"type\":\"CHECKOUT\"}"
D_CLEAR     == "{\"type\":\"CLEAR_BILL\"}"
D_ADD       == "{\"type\":\"ADD_ITEM\",\"productId\":\"p1\",\"quantity\":0.5}"
D_ADD_ZERO  == "{\"type\":\"ADD_ITEM\",\"productId\":\"p1\",\"quantity\":0}"
D_ADD_NOID  == "{\"type\":\"ADD_ITEM\",\"quantity\":2}"
D_REFUND    == "{\"type\":\"REFUND\"}"
D_EMPTY_OBJ == "{}"
D_EMPTY_ARR == "[]"
D_NULL      == "null"
D_ITEMS     == "[{\"productId\":\"p1\",\"quantity\":2}]"
D_MATCH     == "{\"matchedId\":\"c1\"}"
D_INSIGHTS  == "{\"stockPrediction\":\"Rice low\",\"staffPerformance\":\"Asha\",\"salesHeatmap\":[]}"
D_ITEMS_UNKNOWN == "[{\"productId\":\"p9\",\"quantity\":1},{\"productId\":\"p1\",\"quantity\":2}]"
D_ITEMS_NOQTY   == "[{\"productId\":\"p1\"}]"
D_MATCH_NODESC  == "{\"matchedId\":\"c2\"}"
D_MATCH_UNKNOWN == "{\"matchedId\":\"c9\"}"
D_MATCH_NULLSTR == "{\"matchedId\":\"null\"}"
D_MATCH_NUM     == "{\"matchedId\":7}"
D_MATCH_NULL    == "{\"matchedId\":null}"
D_INSIGHTS_NOSTAFF == "{\"stockPrediction\":\"Rice low\",\"salesHeatmap\":[{\"productName\":\"Rice 1kg\",\"score\":85}]}"
D_INSIGHTS_HOT     == "{\"stockPrediction\":\"Rice low\",\"staffPerformance\":\"Asha\",\"salesHeatmap\":[{\"productName\":\"Rice 1kg\",\"score\":150}]}"
D_CONFIG           == "{\"apiKey\":\"AIzaSy1\",\"projectId\":\"rg-store\"}"
D_CONFIG_NOPROJECT == "{\"apiKey\":\"AIzaSy1\"}"
D_CONFIG_EMPTYKEY  == "{\"apiKey\":\"\",\"projectId\":\"rg-store\"}"

(* The JSON documents of the model, each one token, and the value each denotes. *)
Documents ==
    {D_CHECKOUT, D_CLEAR, D_ADD, D_ADD_ZERO, D_ADD_NOID, D_REFUND,
     D_EMPTY_OBJ, D_EMPTY_ARR, D_NULL, D_ITEMS, D_MATCH, D_INSIGHTS,
     D_ITEMS_UNKNOWN, D_ITEMS_NOQTY, D_MATCH_NODESC, D_MATCH_UNKNOWN,
     D_MATCH_NULLSTR, D_MATCH_NUM, D_MATCH_NULL, D_INSIGHTS_NOSTAFF,
     D_INSIGHTS_HOT, D_CONFIG, D_CONFIG_NOPROJECT, D_CONFIG_EMPTYKEY}

(* One entry of a sales heat map. *)
HeatmapEntry(name, score) ==
    JObj(<< <<"productName", Lit(name)>>, <<"score", JNum(score)>> >>)

DocumentValue(d) ==
    CASE d = D_CHECKOUT  -> JObj(<< <<"type", Lit("CHECKOUT")>> >>)
      [] d = D_CLEAR     -> JObj(<< <<"type", Lit("CLEAR_BILL")>> >>)
      [] d = D_ADD       -> JObj(<< <<"type", Lit("ADD_ITEM")>>,
                                    <<"productId", Lit("p1")>>,
                                    <<"quantity", JNum(5)>> >>)
      [] d = D_ADD_ZERO  -> JObj(<< <<"type", Lit("ADD_ITEM")>>,
                                    <<"productId", Lit("p1")>>,
                                    <<"quantity", JNum(0)>> >>)
      [] d = D_ADD_NOID  -> JObj(<< <<"type", Lit("ADD_ITEM")>>,
                                    <<"quantity", JNum(20)>> >>)
      [] d = D_REFUND    -> JObj(<< <<"type", Lit("REFUND")>> >>)
      [] d = D_EMPTY_OBJ -> JObj(<<>>)
      [] d = D_EMPTY_ARR -> JArr(<<>>)
      [] d = D_NULL      -> JNull
      [] d = D_ITEMS     -> JArr(<< JObj(<< <<"productId", Lit("p1")>>,
                                           <<"quantity", JNum(20)>> >>) >>)
      [] d = D_MATCH     -> JObj(<< <<"matchedId", Lit("c1")>> >>)
      [] d = D_INSIGHTS  -> JObj(<< <<"stockPrediction", Lit("Rice low")>>,
                                    <<"staffPerformance", Lit("Asha")>>,
                                    <<"salesHeatmap", JArr(<<>>)>> >>)
      [] d = D_ITEMS_UNKNOWN ->
            JArr(<< JObj(<< <<"productId", Lit("p9")>>, <<"quantity", JNum(10)>> >>),
                    JObj(<< <<"productId", Lit("p1")>>, <<"quantity", JNum(20)>> >>) >>)
      [] d = D_ITEMS_NOQTY   -> JArr(<< JObj(<< <<"productId", Lit("p1")>> >>) >>)
      [] d = D_MATCH_NODESC  -> JObj(<< <<"matchedId", Lit("c2")>> >>)
      [] d = D_MATCH_UNKNOWN -> JObj(<< <<"matchedId", Lit("c9")>> >>)
      [] d = D_MATCH_NULLSTR -> JObj(<< <<"matchedId", Lit("null")>> >>)
      [] d = D_MATCH_NUM     -> JObj(<< <<"matchedId", JNum(70)>> >>)
      [] d = D_MATCH_NULL    -> JObj(<< <<"matchedId", JNull>> >>)
      [] d = D_INSIGHTS_NOSTAFF ->
            JObj(<< <<"stockPrediction", Lit("Rice low")>>,
                    <<"salesHeatmap", JArr(<<HeatmapEntry("Rice 1kg", 850)>>)>> >>)
      [] d = D_INSIGHTS_HOT ->
            JObj(<< <<"stockPrediction", Lit("Rice low")>>,
                    <<"staffPerformance", Lit("Asha")>>,
                    <<"salesHeatmap", JArr(<<HeatmapEntry("Rice 1kg", 1500)>>)>> >>)
      [] d = D_CONFIG ->
            JObj(<< <<"apiKey", JStr(<<"AIza", "Sy1">>)>>,
                    <<"projectId", JStr(<<"rg-store">>)>> >>)
      [] d = D_CONFIG_NOPROJECT -> JObj(<< <<"apiKey", JStr(<<"AIza", "Sy1">>)>> >>)
      [] d = D_CONFIG_EMPTYKEY ->
            JObj(<< <<"apiKey", JStr(<<>>)>>, <<"projectId", JStr(<<"rg-store">>)>> >>)

(* What a response may carry besides markers and white space. *)
Payloads == Documents \cup {PROSE}

TrimSpace == {WS, NBSP}
JsonSpace == {WS}

RECURSIVE DropLeading(_, _)
DropLeading(t, space) ==
    IF t # <<>> /\ Head(t) \in space THEN DropLeading(Tail(t), space) ELSE t

RECURSIVE DropTrailing(_, _)
DropTrailing(t, space) ==
    IF t # <<>> /\ t[Len(t)] \in space
    THEN DropTrailing(SubSeq(t, 1, Len(t) - 1), space)
    ELSE t

(* String.prototype.trim *)
Trim(t) == DropTrailing(DropLeading(t, TrimSpace), TrimSpace)

(* The alphabet of a response text: markers, white space and one payload. *)
Alphabet(p) == {FENCE, FMT, WS, NBSP, p}

----------------------------------------------------------------------------
(* Completions: a function body either returns a value or throws. *)

Return(v) == [kind |-> "return", value |-> v]
Throw     == [kind |-> "throw", value |-> JUndefined]

(* try { body } catch { handler } *)
TryCatch(body, handler) == IF body.kind = "throw" THEN handler ELSE body

(* getGenAI without the test of API_KEY. *)
getGenAI_unchecked(key) == Return(Lit("GoogleGenAI"))

(* getGenAI: throws when API_KEY is not set, otherwise hands out the client. *)
getGenAI(key) == IF ~key THEN Throw ELSE Return(Lit("GoogleGenAI"))

(* The settled promise of ai.models.generateContent. *)
Pending     == [kind |-> "pending", defined |-> FALSE, text |-> <<>>]
Rejected    == [kind |-> "rejected", defined |-> FALSE, text |-> <<>>]
NoText      == [kind |-> "fulfilled", defined |-> FALSE, text |-> <<>>]
WithText(t) == [kind |-> "fulfilled", defined |-> TRUE, text |-> t]

(* await ai.models.generateContent(...): a rejection is thrown at the await. *)
generateContent(resp) == IF resp.kind = "rejected" THEN Throw ELSE Return(resp)

(* response.text *)
ResponseText(resp) == IF resp.defined THEN JStr(resp.text) ELSE JUndefined

(* const ai = getGenAI(); const response = await ai.models.generateContent(..);
   then the rest of the try block. *)
WithResponse(key, resp, rest) ==
    IF getGenAI(key).kind = "throw" THEN Throw
    ELSE IF generateContent(resp).kind = "throw" THEN Throw
    ELSE rest

----------------------------------------------------------------------------
(* parseAIResponse *)

StartsWith(t, prefix) ==
    Len(t) >= Len(prefix) /\ SubSeq(t, 1, Len(prefix)) = prefix

(* t.replace(/^prefix/, '') for a t that starts with the prefix. *)
RemoveLeading(t, prefix) == SubSeq(t, Len(prefix) + 1, Len(t))

(* t.replace(/<fence>$/, ''): the marker is removed only at the very end. *)
RemoveTrailingFence(t) ==
    IF t # <<>> /\ t[Len(t)] = FENCE THEN SubSeq(t, 1, Len(t) - 1) ELSE t

(* cleaned without the trim of its first line. *)
cleaned_untrimmed(text) ==
    IF StartsWith(text, <<FENCE, FMT>>)
    THEN RemoveTrailingFence(RemoveLeading(text, <<FENCE, FMT>>))
    ELSE IF StartsWith(text, <<FENCE>>)
    THEN RemoveTrailingFence(RemoveLeading(text, <<FENCE>>))
    ELSE text

(* The local variable cleaned at the call of JSON.parse. *)
cleaned(text) ==
    LET t == Trim(text)
    IN  IF StartsWith(t, <<FENCE, FMT>>)
        THEN RemoveTrailingFence(RemoveLeading(t, <<FENCE, FMT>>))
        ELSE IF StartsWith(t, <<FENCE>>)
        THEN RemoveTrailingFence(RemoveLeading(t, <<FENCE>>))
        ELSE t

(* JSON.parse: white space around the one document is skipped, anything
   else is a SyntaxError.  No document of the model is a bare number, so no
   two tokens side by side form a document. *)
JSONParse(t) ==
    LET core == DropTrailing(DropLeading(t, JsonSpace), JsonSpace)
    IN  IF Len(core) = 1 /\ core[1] \in Documents
        THEN Return(DocumentValue(core[1]))
        ELSE Throw

(* parseAIResponse with a catch block that returns nothing. *)
parseAIResponse_undefined(text) ==
    TryCatch(JSONParse(cleaned(text.s)), Return(JUndefined)).value

parseAIResponse(text) ==
    TryCatch(JSONParse(cleaned(text.s)), Return(JNull)).value

----------------------------------------------------------------------------
(* The nine operations.  key: API_KEY is set; resp: the settled call. *)

fetchMarketNews(key, resp) ==
    TryCatch(
        WithResponse(key, resp,
            Return(Or(ResponseText(resp), Lit("Market news currently unavailable.")))),
        Return(Lit("Market news currently unavailable.")))

fetchPriceVariationSuggestion(key, resp) ==
    TryCatch(
        WithResponse(key, resp,
            Return(Or(ResponseText(resp), Lit("Could not fetch suggestion.")))),
        Return(Lit("Could not fetch price variation suggestion.")))

askShopAI(key, resp) ==
    TryCatch(
        WithResponse(key, resp,
            Return(Or(ResponseText(resp), Lit("I couldn't generate an answer.")))),
        Return(Lit("Sorry, I'm having trouble connecting to my brain right now.")))

(* analyzeImageForBilling with a catch block that returns nothing. *)
analyzeImageForBilling_noreturn(key, resp) ==
    TryCatch(
        WithResponse(key, resp,
            LET parsed == parseAIResponse(Or(ResponseText(resp), Lit("[]")))
            IN  Return(IF parsed.k = "array" THEN parsed ELSE JArr(<<>>))),
        Return(JUndefined))

analyzeImageForBilling(key, resp) ==
    TryCatch(
        WithResponse(key, resp,
            LET parsed == parseAIResponse(Or(ResponseText(resp), Lit("[]")))
            IN  Return(IF parsed.k = "array" THEN parsed ELSE JArr(<<>>))),
        Return(JArr(<<>>)))

(* processVoiceCommand keeping only the type of what was parsed. *)
processVoiceCommand_typeOnly(key, resp) ==
    TryCatch(
        WithResponse(key, resp,
            LET parsed == parseAIResponse(Or(ResponseText(resp), Lit("{}")))
            IN  Return(IF parsed.k = "object"
                       THEN JObj(<< <<"type", Get(parsed, "type")>> >>)
                       ELSE JNull)),
        Return(JNull))

processVoiceCommand(key, resp) ==
    TryCatch(
        WithResponse(key, resp,
            Return(parseAIResponse(Or(ResponseText(resp), Lit("{}"))))),
        Return(JNull))

NoDataInsights ==
    JObj(<< <<"stockPrediction", Lit("No data")>>,
            <<"staffPerformance", Lit("No data")>>,
            <<"salesHeatmap", JArr(<<>>)>> >>)

UnavailableInsights ==
    JObj(<< <<"stockPrediction", Lit("Unavailable")>>,
            <<"staffPerformance", Lit("Unavailable")>>,
            <<"salesHeatmap", JArr(<<>>)>> >>)

generateSmartInsights(key, resp) ==
    TryCatch(
        WithResponse(key, resp,
            LET parsed == parseAIResponse(Or(ResponseText(resp), Lit("{}")))
            IN  Return(Or(parsed, NoDataInsights))),
        Return(UnavailableInsights))

analyzeCustomerFace(key, resp) ==
    TryCatch(
        WithResponse(key, resp,
            Return(Or(ResponseText(resp), Lit("Customer detected")))),
        Return(Lit("Analysis unavailable")))

(* candidateData without the filter on faceAttributes. *)
candidateData_unfiltered(cs) ==
    [k \in 1..Len(cs) |-> [id |-> cs[k].id, d |-> cs[k].faceAttributes]]

(* customers.filter(c => c.faceAttributes).map(c => ({ id: c.id, d: c.faceAttributes })) *)
candidateData(cs) ==
    LET keep == {i \in 1..Len(cs) : cs[i].faceAttributes # ""}
        RECURSIVE From(_)
        From(i) ==
            IF i > Len(cs) THEN <<>>
            ELSE IF i \in keep
            THEN <<[id |-> cs[i].id, d |-> cs[i].faceAttributes]>> \o From(i + 1)
            ELSE From(i + 1)
    IN  From(1)

identifyCustomerFromImage(key, cs, resp) ==
    TryCatch(
        IF getGenAI(key).kind = "throw" THEN Throw
        ELSE IF Len(candidateData(cs)) = 0 THEN Return(JNull)
        ELSE IF generateContent(resp).kind = "throw" THEN Throw
        ELSE LET parsed == parseAIResponse(Or(ResponseText(resp), Lit("{}")))
             IN  Return(Or(Get(parsed, "matchedId"), JNull)),
        Return(JNull))

(* getSmartUpsellSuggestion with getGenAI called before the try block. *)
getSmartUpsellSuggestion_unguarded(key, cart, resp) ==
    IF Len(cart) = 0 THEN Return(JNull)
    ELSE IF getGenAI(key).kind = "throw" THEN Throw
    ELSE TryCatch(
        WithResponse(key, resp,
            Return(IF Truthy(ResponseText(resp))
                   THEN JStr(Trim(resp.text))
                   ELSE JNull)),
        Return(JNull))

getSmartUpsellSuggestion(key, cart, resp) ==
    IF Len(cart) = 0 THEN Return(JNull)
    ELSE TryCatch(
        WithResponse(key, resp,
            Return(IF Truthy(ResponseText(resp))
                   THEN JStr(Trim(resp.text))
                   ELSE JNull)),
        Return(JNull))

----------------------------------------------------------------------------
(* One invocation at a time: the caller invokes an operation, the operation
   runs up to its await, the call settles, the operation returns. *)

VARIABLES
    apiKey,         \* process.env.API_KEY is set
    pc,             \* "idle", "calling" (at the await) or "done"
    op,             \* the operation invoked
    customers,      \* argument of identifyCustomerFromImage
    cartItemNames,  \* argument of getSmartUpsellSuggestion
    response,       \* the settled call, Pending before
    parserInput,    \* the text parseAIResponse handed to JSON.parse
    result,         \* what the operation gave its caller
    calls,          \* calls of generateContent in this invocation
    products,       \* argument products (the inventory)
    sales,          \* argument sales
    request,        \* what the operation put in the contents of its call
    stages,         \* the stages the invocation has entered, in order
    threads,        \* the invocations in flight at once, each with its locals
    domain,         \* the caller's inventory and customer list, handed to each
    modal,          \* MembershipModal: its props, state and ref
    erp,            \* ERPNetwork: its state, the stored configuration, the page
    mgmt            \* CustomerManagement: the customers list and its handlers

concurrentVars == <<threads, domain>>
adminVars == <<modal, erp, mgmt>>
vars == <<apiKey, pc, op, customers, cartItemNames, response, parserInput,
          result, calls, products, sales, request, stages, threads, domain,
          modal, erp, mgmt>>

TextOperations ==
    {"fetchMarketNews", "fetchPriceVariationSuggestion", "askShopAI",
     "analyzeCustomerFace", "getSmartUpsellSuggestion"}
StructuredOperations ==
    {"analyzeImageForBilling", "processVoiceCommand", "generateSmartInsights",
     "identifyCustomerFromImage"}
Operations == TextOperations \cup StructuredOperations

(* The name and mobile number on record for a customer id. *)
CustomerName(id) ==
    CASE id = "c1" -> "Ravi" [] id = "c2" -> "Meena" [] OTHER -> "Kiran"
CustomerMobile(id) ==
    CASE id = "c1" -> "9000000001" [] id = "c2" -> "9000000002" [] OTHER -> "9000000003"

Customer(id, faceAttributes) ==
    [id |-> id, faceAttributes |-> faceAttributes, name |-> CustomerName(id),
     mobile |-> CustomerMobile(id)]
CustomerLists ==
    {<<>>,
     <<Customer("c2", "")>>,
     <<Customer("c1", "Male, 30s, beard"), Customer("c2", "")>>}
CartLists == {<<>>, <<"Milk">>}
(* The customer lists handed to identifyCustomerFromImage while what is sent
   is examined: every list of at most MaxCustomers of these three. *)
CustomerRegisters ==
    UNION {[1..n -> {Customer("c1", "Male, 30s, beard"), Customer("c2", ""),
                     Customer("c3", "Female, 20s, glasses")}] :
           n \in 0..MaxCustomers}

(* A product of the inventory and a sale, with the fields the operations
   read and those the prompts are meant to leave out. *)
Product(id, name, brand, price, stock, expiryDate) ==
    [id |-> id, name |-> name, brand |-> brand, price |-> price,
     stock |-> stock, expiryDate |-> expiryDate]
P1 == Product("p1", "Rice 1kg", "Daawat", "price 60", "stock 12", "2027-01-31")
P2 == Product("p2", "Milk 1l", "Amul", "price 30", "stock 0", "2026-11-09")
Sale(i) == [id |-> i]

(* The inventories and sales histories of the model. *)
Inventories == UNION {[1..n -> {P1, P2}] : n \in 0..MaxProducts}
SalesHistories == {[i \in 1..n |-> Sale(i)] : n \in 0..MaxSales}
(* The inventories handed to analyzeImageForBilling while responses vary:
   none, one without p2, one with both products. *)
BillingInventories == {<<>>, <<P1>>, <<P1, P2>>}

(* array.slice(0, n) and array.slice(-n) *)
SliceFirst(a, n) == SubSeq(a, 1, IF Len(a) < n THEN Len(a) ELSE n)
SliceLast(a, n)  == SubSeq(a, IF Len(a) < n THEN 1 ELSE Len(a) - n + 1, Len(a))

(* productContext of analyzeImageForBilling *)
billingProductContext(ps) ==
    [k \in 1..Len(ps) |->
        JObj(<< <<"id", Lit(ps[k].id)>>, <<"n", Lit(ps[k].name)>>,
                <<"b", Lit(ps[k].brand)>> >>)]

(* processVoiceCommand's product list sent whole. *)
voiceProductContext_whole(ps) ==
    [k \in 1..Len(ps) |->
        JObj(<< <<"id", Lit(ps[k].id)>>, <<"name", Lit(ps[k].name)>>,
                <<"brand", Lit(ps[k].brand)>>, <<"price", Lit(ps[k].price)>>,
                <<"stock", Lit(ps[k].stock)>>,
                <<"expiryDate", Lit(ps[k].expiryDate)>> >>)]

(* productContext of processVoiceCommand *)
voiceProductContext(ps) ==
    [k \in 1..Len(ps) |->
        JObj(<< <<"i", Lit(ps[k].id)>>, <<"n", Lit(ps[k].name)>> >>)]

(* generateSmartInsights taking the first sales in place of the last. *)
recentSales_first(ss) == SliceFirst(ss, RecentSalesWindow)

(* recentSales and productSummary of generateSmartInsights *)
recentSales(ss) == SliceLast(ss, RecentSalesWindow)
productSummary(ps) ==
    [k \in 1..Len(ps) |->
        JObj(<< <<"name", Lit(ps[k].name)>>, <<"stock", Lit(ps[k].stock)>> >>)]

(* sampleProducts of askShopAI *)
sampleProducts(ps) ==
    LET first == SliceFirst(ps, SampleProductsWindow)
    IN  [k \in 1..Len(first) |-> Lit(first[k].name)]

(* What an operation places in the contents of its call, from its
   arguments: the inventory context, the sales, the candidates, the cart. *)
NoRequest ==
    [sent |-> FALSE, inventory |-> <<>>, sales |-> <<>>, candidates |-> <<>>,
     cart |-> <<>>]
Request(o, ps, ss, cs, cart) ==
    [sent |-> TRUE,
     inventory |->
        CASE o = "analyzeImageForBilling" -> billingProductContext(ps)
          [] o = "processVoiceCommand"    -> voiceProductContext(ps)
          [] o = "generateSmartInsights"  -> productSummary(ps)
          [] o = "askShopAI"              -> sampleProducts(ps)
          [] OTHER                        -> <<>>,
     sales |-> IF o = "generateSmartInsights" THEN recentSales(ss) ELSE <<>>,
     candidates |-> IF o = "identifyCustomerFromImage" THEN candidateData(cs) ELSE <<>>,
     cart |-> IF o = "getSmartUpsellSuggestion" THEN cart ELSE <<>>]

NotParsed == <<"<parseAIResponse not called>">>
NoResult  == [kind |-> "none", value |-> JUndefined]

(* The operation o on its arguments, with the call settled as resp. *)
Run(o, key, cs, cart, resp) ==
    CASE o = "fetchMarketNews"               -> fetchMarketNews(key, resp)
      [] o = "fetchPriceVariationSuggestion" -> fetchPriceVariationSuggestion(key, resp)
      [] o = "askShopAI"                     -> askShopAI(key, resp)
      [] o = "analyzeImageForBilling"        -> analyzeImageForBilling(key, resp)
      [] o = "processVoiceCommand"           -> processVoiceCommand(key, resp)
      [] o = "generateSmartInsights"         -> generateSmartInsights(key, resp)
      [] o = "analyzeCustomerFace"           -> analyzeCustomerFace(key, resp)
      [] o = "identifyCustomerFromImage"     -> identifyCustomerFromImage(key, cs, resp)
      [] o = "getSmartUpsellSuggestion"      -> getSmartUpsellSuggestion(key, cart, resp)

(* ReachesCall without the early return of identifyCustomerFromImage and of
   getSmartUpsellSuggestion. *)
ReachesCall_always(o, key, cs, cart) == getGenAI(key).kind = "return"

(* Whether the operation reaches its generateContent call. *)
ReachesCall(o, key, cs, cart) ==
    /\ o = "getSmartUpsellSuggestion" => Len(cart) # 0
    /\ getGenAI(key).kind = "return"
    /\ o = "identifyCustomerFromImage" => Len(candidateData(cs)) # 0

(* The text literal each structured operation parses in place of an empty
   response text. *)
EmptyTextDefault(o) ==
    IF o = "analyzeImageForBilling" THEN Lit("[]") ELSE Lit("{}")

(* The response texts an operation is given: prose and the documents of its
   own prompt, well formed and not, besides those of no prompt. *)
PayloadsOf(o) ==
    CASE o = "processVoiceCommand" ->
            {D_CHECKOUT, D_CLEAR, D_ADD, D_ADD_ZERO, D_ADD_NOID, D_REFUND,
             D_EMPTY_OBJ, D_EMPTY_ARR, D_NULL, PROSE}
      [] o = "analyzeImageForBilling" ->
            {D_ITEMS, D_ITEMS_UNKNOWN, D_ITEMS_NOQTY, D_EMPTY_ARR, D_EMPTY_OBJ,
             D_NULL, PROSE}
      [] o = "identifyCustomerFromImage" ->
            {D_MATCH, D_MATCH_NODESC, D_MATCH_UNKNOWN, D_MATCH_NULLSTR,
             D_MATCH_NUM, D_MATCH_NULL, D_EMPTY_OBJ, D_NULL, PROSE}
      [] o = "generateSmartInsights" ->
            {D_INSIGHTS, D_INSIGHTS_NOSTAFF, D_INSIGHTS_HOT, D_EMPTY_OBJ,
             D_EMPTY_ARR, D_NULL, PROSE}
      [] OTHER -> {PROSE, D_EMPTY_OBJ}

(* The stage an invocation ends in: Fallback when what it returns is the
   value of a catch block, of an early return or of the right-hand side of a
   default (|| "..", : [], : null, a null from parseAIResponse), Done when
   it is made from the response. *)
Terminal(o, key, cs, cart, resp) ==
    LET text == ResponseText(resp)
        parsed == parseAIResponse(Or(text, EmptyTextDefault(o)))
    IN  IF ~ReachesCall(o, key, cs, cart) \/ resp.kind # "fulfilled" THEN "Fallback"
        ELSE IF o \in TextOperations
        THEN (IF Truthy(text) THEN "Done" ELSE "Fallback")
        ELSE IF o = "analyzeImageForBilling"
        THEN (IF parsed.k = "array" THEN "Done" ELSE "Fallback")
        ELSE IF o = "identifyCustomerFromImage"
        THEN (IF Truthy(Get(parsed, "matchedId")) THEN "Done" ELSE "Fallback")
        ELSE (IF Truthy(parsed) THEN "Done" ELSE "Fallback")

(* The stages an operation enters from its start to its await or, when it
   makes no call, to its return: the early return of getSmartUpsellSuggestion
   comes before anything is built. *)
StagesToCall(o, key, cs, cart) ==
    IF ReachesCall(o, key, cs, cart) THEN <<"Building", "Calling">>
    ELSE IF o = "getSmartUpsellSuggestion" /\ Len(cart) = 0 THEN <<"Fallback">>
    ELSE <<"Building", "Fallback">>

(* The stages an operation enters from its await to its return: a rejection
   leads to the catch block; a structured operation removes the markers
   (parseAIResponse up to JSON.parse) and then checks what was parsed; a text
   operation only checks that there is a text. *)
StagesFromCall(o, key, cs, cart, resp) ==
    IF resp.kind = "rejected" THEN <<"Fallback">>
    ELSE IF o \in StructuredOperations
    THEN <<"Sanitizing", "Validating", Terminal(o, key, cs, cart, resp)>>
    ELSE <<"Validating", Terminal(o, key, cs, cart, resp)>>

(* The operation asking again when the response text is not a JSON
   document. *)
Resume_reask(o, resp) ==
    IF /\ o \in StructuredOperations
       /\ resp.kind = "fulfilled"
       /\ parseAIResponse(Or(ResponseText(resp), EmptyTextDefault(o))) = JNull
    THEN "call" ELSE "return"

(* The operation with a catch block that awaits what never settles. *)
Resume_stall(o, resp) == IF resp.kind = "rejected" THEN "stall" ELSE "return"

(* The operation with a loop around its call: the call is made again after
   a rejection. *)
Resume_retry(o, resp) == IF resp.kind = "rejected" THEN "call" ELSE "return"

(* What the operation does when its awaited call has settled: every path
   from the await leads to a return, none back to the call and none to
   another await. *)
Resume(o, resp) == "return"

(* One invocation in flight: its operation, arguments and locals, the call
   it awaits and what it has returned. *)
IdleThread ==
    [pc |-> "idle", op |-> "none", customers |-> <<>>, products |-> <<>>,
     response |-> Pending, result |-> NoResult]

(* The data the caller holds while invocations are in flight. *)
Domains ==
    {[customers |-> <<Customer("c1", "Male, 30s, beard"), Customer("c2", "")>>,
      products |-> <<P1>>],
     [customers |-> <<Customer("c2", "")>>, products |-> <<P1, P2>>]}

(* MembershipModal before it is mounted and after it is closed: no customer,
   and the initial values of useState and useRef. *)
NoModal ==
    [mounted |-> FALSE, customer |-> [id |-> "none", isMember |-> FALSE],
     step |-> "verify", otpSent |-> FALSE, otp |-> <<>>, generatedOtp |-> <<>>,
     upgraded |-> <<>>, toast |-> "none"]

(* The configuration form of ERPNetwork.  A field is the sequence of the
   pieces of its text: an API key of digits only, one that starts with AIza
   and one that does neither; an auth domain with a scheme, of a hosting
   site, with a placeholder, and a proper one. *)
ConfigForms ==
    [apiKey : {<<>>, <<"12345">>, <<"AIza", "Sy1">>, <<"Sy1">>, <<"12345", "Sy1">>},
     projectId : {<<>>, <<"rg-store">>},
     authDomain : {<<>>, <<"https://", "rg-store", ".firebaseapp.com">>,
                   <<"rg-store", ".netlify.app">>, <<"rg-store", ".vercel.app">>,
                   <<"YOUR_", "PROJECT_ID", ".firebaseapp.com">>,
                   <<"rg-store", ".firebaseapp.com">>}]

(* ERPNetwork before it is mounted: nothing stored, nothing shown; handler,
   saved, reloaded, toast, alert and asked tell what the handler run last
   did: whether it called saveERPConfig and window.location.reload, what it
   showed, and the dialogs it put with their answers. *)
NoPage ==
    [mounted |-> FALSE,
     config |-> [apiKey |-> <<>>, projectId |-> <<>>, authDomain |-> <<>>],
     importCode |-> <<>>, stored |-> JNull, handler |-> "none", saved |-> FALSE,
     reloaded |-> FALSE, toast |-> "none", alert |-> "none", asked |-> <<>>]

(* No customer: the null of editingCustomer and membershipCustomer. *)
NoCustomer == [id |-> "none", name |-> "", isMember |-> FALSE]

(* CustomerManagement before it is mounted.  customers is the list of the
   application context; database is the calls made to it; running is the
   handlers that wait at their await, each with the customers and the
   editingCustomer of the render that made it; completed is those that went
   on after it. *)
NoMgmt ==
    [mounted |-> FALSE, customers |-> <<>>, database |-> <<>>,
     isFormOpen |-> FALSE, editingCustomer |-> NoCustomer,
     membershipCustomer |-> NoCustomer, running |-> <<>>, completed |-> <<>>,
     toast |-> "none"]

(* Nothing of the admin pages is mounted. *)
InitAdmin ==
    /\ modal = NoModal
    /\ erp = NoPage
    /\ mgmt = NoMgmt

InitService ==
    /\ apiKey \in BOOLEAN
    /\ pc = "idle"
    /\ op = "none"
    /\ customers = <<>>
    /\ cartItemNames = <<>>
    /\ response = Pending
    /\ parserInput = NotParsed
    /\ result = NoResult
    /\ calls = 0
    /\ products = <<>>
    /\ sales = <<>>
    /\ request = NoRequest
    /\ stages = <<"Idle">>

Init ==
    /\ InitService
    /\ threads = [i \in 1..MaxThreads |-> IdleThread]
    /\ domain = [customers |-> <<>>, products |-> <<>>]
    /\ InitAdmin

(* The caller invokes o; the operation runs to its await or to its return. *)
Invoke(o, ps, ss, cs, cart) ==
    /\ pc = "idle"
    /\ op' = o
    /\ products' = ps
    /\ sales' = ss
    /\ customers' = cs
    /\ cartItemNames' = cart
    /\ IF ReachesCall(o, apiKey, cs, cart)
       THEN /\ pc' = "calling"
            /\ calls' = calls + 1
            /\ request' = Request(o, ps, ss, cs, cart)
            /\ result' = NoResult
       ELSE /\ pc' = "done"
            /\ calls' = calls
            /\ request' = NoRequest
            /\ result' = Run(o, apiKey, cs, cart, Pending)
    /\ stages' = stages \o StagesToCall(o, apiKey, cs, cart)
    /\ UNCHANGED <<apiKey, response, parserInput, concurrentVars, adminVars>>

(* The call settles as resp and the operation runs from its await to its
   return. *)
Settle(resp) ==
    /\ pc = "calling"
    /\ IF Resume(op, resp) = "call"
       THEN /\ calls' = calls + 1
            /\ stages' = Append(stages, "Calling")
            /\ UNCHANGED <<pc, response, parserInput, result>>
       ELSE IF Resume(op, resp) = "stall"
       THEN /\ pc' = "stalled"
            /\ UNCHANGED <<response, parserInput, result, calls, stages>>
       ELSE /\ response' = resp
            /\ parserInput' =
                  IF op \in StructuredOperations /\ resp.kind = "fulfilled"
                  THEN cleaned(Or(ResponseText(resp), EmptyTextDefault(op)).s)
                  ELSE NotParsed
            /\ result' = Run(op, apiKey, customers, cartItemNames, resp)
            /\ pc' = "done"
            /\ calls' = calls
            /\ stages' = stages \o
                  StagesFromCall(op, apiKey, customers, cartItemNames, resp)
    /\ UNCHANGED <<apiKey, op, customers, cartItemNames, products, sales, request,
                   concurrentVars, adminVars>>

(* The response texts of the model: at most MaxLen tokens, each a marker,
   white space or the one payload of the text, in any order. *)
Fulfil ==
    /\ pc = "calling"
    /\ \E p \in PayloadsOf(op) :
           \E n \in 0..MaxLen :
               \E t \in [1..n -> Alphabet(p)] : Settle(WithText(t))
FulfilBare == Settle(NoText)
Reject     == Settle(Rejected)

(* The caller has the result; the next invocation starts afresh. *)
Finish ==
    /\ pc = "done"
    /\ pc' = "idle"
    /\ op' = "none"
    /\ customers' = <<>>
    /\ cartItemNames' = <<>>
    /\ response' = Pending
    /\ parserInput' = NotParsed
    /\ result' = NoResult
    /\ calls' = 0
    /\ products' = <<>>
    /\ sales' = <<>>
    /\ request' = NoRequest
    /\ stages' = <<"Idle">>
    /\ UNCHANGED <<apiKey, concurrentVars, adminVars>>

(* The arguments an operation takes; an operation that takes no inventory,
   sales, customers or cart is given the empty one. *)
CustomersFor(o) == IF o = "identifyCustomerFromImage" THEN CustomerLists ELSE {<<>>}
CartsFor(o) == IF o = "getSmartUpsellSuggestion" THEN CartLists ELSE {<<>>}

InvokeAny ==
    \E o \in Operations :
        \E ps \in (CASE o = "analyzeImageForBilling" -> BillingInventories
                     [] o \in {"processVoiceCommand", "generateSmartInsights",
                                "askShopAI"} -> {<<P1>>}
                     [] OTHER -> {<<>>}) :
            \E ss \in (IF o = "generateSmartInsights" THEN {<<Sale(1)>>} ELSE {<<>>}) :
                \E cs \in CustomersFor(o) :
                    \E cart \in CartsFor(o) :
                        Invoke(o, ps, ss, cs, cart)

Next == InvokeAny \/ Fulfil \/ FulfilBare \/ Reject \/ Finish

Spec == Init /\ [][Next]_vars

(* The same, with a call that is awaited settling in the end.  The await
   is left by an answer with text, an answer without text or a failure, and
   all three are possible exactly while the operation is at its await, each
   of them ending it; so weak fairness of any one of them says that no await
   lasts for ever, and says nothing on which of the three ends it. *)
SpecLive == Init /\ [][Next]_vars /\ WF_vars(Reject)

(* The same operations over every inventory and sales history of the model,
   with the call ending without text or rejected: what is sent does not
   depend on what comes back. *)
InvokeWithData ==
    \E o \in Operations :
        \E ps \in (IF o \in {"analyzeImageForBilling", "processVoiceCommand",
                              "generateSmartInsights", "askShopAI"}
                    THEN Inventories ELSE {<<>>}) :
            \E ss \in (IF o = "generateSmartInsights" THEN SalesHistories ELSE {<<>>}) :
                \E cs \in (IF o = "identifyCustomerFromImage"
                            THEN CustomerRegisters ELSE {<<>>}) :
                    \E cart \in CartsFor(o) :
                        Invoke(o, ps, ss, cs, cart)

NextRequest == InvokeWithData \/ FulfilBare \/ Reject \/ Finish

SpecRequest == Init /\ [][NextRequest]_vars

----------------------------------------------------------------------------
(* Several invocations in flight.  An operation is an async function: it
   runs to its await, the promise it awaits settles at some time, and the
   function is resumed at some later time with the value of that promise;
   the steps of different invocations interleave.  The module has no
   variable of its own: getGenAI makes a new client in each invocation, and
   ai, response, parsed and the contexts are locals. *)

serviceVars == <<pc, op, customers, cartItemNames, response, parserInput,
                 result, calls, products, sales, request, stages>>

ConcurrentOperations ==
    {"processVoiceCommand", "analyzeImageForBilling", "identifyCustomerFromImage",
     "fetchPriceVariationSuggestion"}

(* The settled calls an operation in flight is given. *)
ConcurrentResponses(o) ==
    {Rejected, NoText} \cup
    (CASE o = "processVoiceCommand" ->
            {WithText(<<D_ADD>>), WithText(<<FENCE, FMT, D_CHECKOUT, FENCE>>)}
       [] o = "analyzeImageForBilling" -> {WithText(<<D_ITEMS>>), WithText(<<PROSE>>)}
       [] o = "identifyCustomerFromImage" ->
            {WithText(<<D_MATCH>>), WithText(<<D_MATCH_NULL>>)}
       [] OTHER -> {WithText(<<PROSE>>)})

(* The response read after the await when it is kept in a variable of the
   module, which the invocation that settled last has written. *)
AwaitedResponse_shared(ts, i) ==
    IF \E j \in DOMAIN ts : j # i /\ ts[j].pc = "settled"
    THEN ts[CHOOSE j \in DOMAIN ts : j # i /\ ts[j].pc = "settled"].response
    ELSE ts[i].response

(* const response = await ...: the value of the invocation's own promise. *)
AwaitedResponse(ts, i) == ts[i].response

(* Invocation i starts operation o on the caller's data and runs to its
   await or to its return. *)
Start(i, o) ==
    /\ threads[i].pc = "idle"
    /\ threads' = [threads EXCEPT ![i] =
          IF ReachesCall(o, apiKey, domain.customers, <<>>)
          THEN [pc |-> "calling", op |-> o, customers |-> domain.customers,
                products |-> domain.products, response |-> Pending,
                result |-> NoResult]
          ELSE [pc |-> "done", op |-> o, customers |-> domain.customers,
                products |-> domain.products, response |-> Pending,
                result |-> Run(o, apiKey, domain.customers, <<>>, Pending)]]
    /\ UNCHANGED <<apiKey, serviceVars, domain, adminVars>>

(* The call of invocation i settles. *)
Arrive(i, resp) ==
    /\ threads[i].pc = "calling"
    /\ threads' = [threads EXCEPT ![i].pc = "settled", ![i].response = resp]
    /\ UNCHANGED <<apiKey, serviceVars, domain, adminVars>>

(* Invocation i is resumed and runs from its await to its return. *)
Continue(i) ==
    /\ threads[i].pc = "settled"
    /\ threads' = [threads EXCEPT
          ![i].pc = "done",
          ![i].result = Run(threads[i].op, apiKey, threads[i].customers, <<>>,
                            AwaitedResponse(threads, i))]
    /\ UNCHANGED <<apiKey, serviceVars, domain, adminVars>>

(* The caller has the result of invocation i. *)
Collect(i) ==
    /\ threads[i].pc = "done"
    /\ threads' = [threads EXCEPT ![i] = IdleThread]
    /\ UNCHANGED <<apiKey, serviceVars, domain, adminVars>>

StartAny == \E i \in 1..MaxThreads : \E o \in ConcurrentOperations : Start(i, o)
ArriveAny ==
    \E i \in 1..MaxThreads :
        \E resp \in ConcurrentResponses(threads[i].op) : Arrive(i, resp)
ContinueAny == \E i \in 1..MaxThreads : Continue(i)
CollectAny == \E i \in 1..MaxThreads : Collect(i)

InitConcurrent ==
    /\ InitService
    /\ threads = [i \in 1..MaxThreads |-> IdleThread]
    /\ domain \in Domains
    /\ InitAdmin

NextConcurrent == StartAny \/ ArriveAny \/ ContinueAny \/ CollectAny

SpecConcurrent == InitConcurrent /\ [][NextConcurrent]_vars

----------------------------------------------------------------------------
(* MembershipModal of src/components/admin/ERPNetwork.tsx.  A string of
   digits is the sequence of its digits. *)

(* The values of Math.floor(1000 + Math.random() * 9000) in the model: the
   least, the greatest and two between. *)
OtpCodes == {1000, 1019, 9001, 9999}

(* What can be typed in the OTP input: at most maxLength of these digits. *)
OtpEntries == UNION {[1..n -> {0, 1, 9}] : n \in 0..OtpMaxLength}

(* Number.prototype.toString of a number of four digits. *)
ToDigits(n) == <<n \div 1000, (n \div 100) % 10, (n \div 10) % 10, n % 10>>

(* The customers the modal is opened for. *)
ModalCustomers ==
    {[id |-> "c1", isMember |-> FALSE], [id |-> "c2", isMember |-> FALSE],
     [id |-> "c3", isMember |-> TRUE]}

(* The render: with a customer who is a member the step is set to card. *)
Render(m) ==
    IF m.customer.isMember /\ m.step = "verify" THEN [m EXCEPT !.step = "card"] ELSE m

(* The Verify button drawn whenever the step is verify. *)
VerifyShown_always(m) == m.mounted /\ m.step = "verify"

(* What the verify step draws: the Send button until an OTP was sent, the
   input and the Verify button from then on. *)
SendShown(m) == m.mounted /\ m.step = "verify" /\ ~m.otpSent
VerifyShown(m) == m.mounted /\ m.step = "verify" /\ m.otpSent

adminRest == <<apiKey, serviceVars, concurrentVars>>

(* CustomerManagement sets membershipCustomer and the modal is mounted. *)
OpenModal(c) ==
    /\ ~modal.mounted
    /\ modal' = Render([NoModal EXCEPT !.mounted = TRUE, !.customer = c])
    /\ UNCHANGED <<adminRest, erp, mgmt>>

sendOtp(code) ==
    /\ SendShown(modal)
    /\ modal' = Render([modal EXCEPT !.generatedOtp = ToDigits(code),
                                      !.otpSent = TRUE])
    /\ UNCHANGED <<adminRest, erp, mgmt>>

(* onChange of the input: setOtp(e.target.value) *)
setOtp(value) ==
    /\ VerifyShown(modal)
    /\ modal' = Render([modal EXCEPT !.otp = value])
    /\ UNCHANGED <<adminRest, erp, mgmt>>

verifyOtp ==
    /\ VerifyShown(modal)
    /\ modal' = Render(
          IF modal.otp = modal.generatedOtp
          THEN [modal EXCEPT
                  !.upgraded = Append(@, [modal.customer EXCEPT !.isMember = TRUE]),
                  !.step = "card",
                  !.toast = "Membership verified successfully!"]
          ELSE [modal EXCEPT !.toast = "Invalid OTP"])
    /\ UNCHANGED <<adminRest, erp, mgmt>>

(* onClose: membershipCustomer is set to null and the modal is unmounted. *)
CloseModal ==
    /\ modal.mounted
    /\ modal' = NoModal
    /\ UNCHANGED <<adminRest, erp, mgmt>>

NextMembership ==
    \/ \E c \in ModalCustomers : OpenModal(c)
    \/ \E code \in OtpCodes : sendOtp(code)
    \/ \E value \in OtpEntries : setOtp(value)
    \/ verifyOtp
    \/ CloseModal

SpecMembership == Init /\ [][NextMembership]_vars

----------------------------------------------------------------------------
(* ERPNetwork of src/components/admin/ERPNetwork.tsx: handleConnect and
   handleImportSubmit. *)

(* handleConnect without the test for a key of digits. *)
IsDigits_never(t) == FALSE

(* /^\d+$/.test(t) *)
IsDigits(t) == t # <<>> /\ \A i \in 1..Len(t) : t[i] = "12345"

(* s.includes(piece) *)
Includes(t, piece) == \E i \in 1..Len(t) : t[i] = piece

(* btoa of a text of one piece, and atob: the text a code stands for, or a
   fault when the code is no base64. *)
Btoa(d) ==
    CASE d = D_CONFIG -> "eyJhcGlLZXkiOiJBSXphU3kxIiwicHJvamVjdElkIjoicmctc3RvcmUifQ=="
      [] d = D_CONFIG_NOPROJECT -> "eyJhcGlLZXkiOiJBSXphU3kxIn0="
      [] d = D_CONFIG_EMPTYKEY -> "eyJhcGlLZXkiOiIiLCJwcm9qZWN0SWQiOiJyZy1zdG9yZSJ9"
      [] d = D_NULL -> "bnVsbA=="
      [] d = D_EMPTY_OBJ -> "e30="
      [] d = PROSE -> "UHJpY2VzIGRpcC4="
Encoded == {D_CONFIG, D_CONFIG_NOPROJECT, D_CONFIG_EMPTYKEY, D_NULL, D_EMPTY_OBJ, PROSE}
Atob(t) ==
    IF \E d \in Encoded : t = <<Btoa(d)>>
    THEN Return(<<CHOOSE d \in Encoded : t = <<Btoa(d)>> >>)
    ELSE Throw

(* What is pasted in the import box: nothing, white space, a code with and
   without white space around it, a text that is no base64. *)
ImportCodes ==
    {<<>>, <<WS>>, <<"not*base64">>} \cup {<<Btoa(d)>> : d \in Encoded}
    \cup {<<WS, Btoa(D_CONFIG), WS>>}

(* handleImportSubmit without its validation. *)
ValidConfig_any(parsed) == Return(parsed)

(* if (!parsed.apiKey || !parsed.projectId) throw ...; reading a property of
   null is a TypeError. *)
ValidConfig(parsed) ==
    IF parsed.k \in {"null", "undefined"} THEN Throw
    ELSE IF ~Truthy(Get(parsed, "apiKey")) \/ ~Truthy(Get(parsed, "projectId")) THEN Throw
    ELSE Return(parsed)

(* The page is loaded: config starts as firebaseConfig gives it, whatever
   that is; what is stored stays. *)
MountERP ==
    /\ ~erp.mounted
    /\ \E config \in ConfigForms :
           erp' = [NoPage EXCEPT !.mounted = TRUE, !.config = config,
                                 !.stored = erp.stored]
    /\ UNCHANGED <<adminRest, modal, mgmt>>

handleChange(name, value) ==
    /\ erp.mounted
    /\ erp' = [erp EXCEPT !.config[name] = value]
    /\ UNCHANGED <<adminRest, modal, mgmt>>

setImportCode(value) ==
    /\ erp.mounted
    /\ erp' = [erp EXCEPT !.importCode = value]
    /\ UNCHANGED <<adminRest, modal, mgmt>>

(* okKey and okReload: what the user answers to the two dialogs, if put. *)
handleConnect(okKey, okReload) ==
    /\ erp.mounted
    /\ LET config == erp.config
           Stop(toast, alert, asked) ==
               [erp EXCEPT !.handler = "handleConnect", !.saved = FALSE,
                           !.reloaded = FALSE, !.toast = toast, !.alert = alert,
                           !.asked = asked]
           keyAsked ==
               IF StartsWith(config.apiKey, <<"AIza">>) THEN <<>>
               ELSE << <<"Suspicious API Key", okKey>> >>
           cleanConfig ==
               IF Includes(config.authDomain, "YOUR_")
               THEN [config EXCEPT !.authDomain = config.projectId \o <<".firebaseapp.com">>]
               ELSE config
       IN  erp' =
             IF config.apiKey = <<>> \/ config.projectId = <<>>
             THEN Stop("API Key and Project ID are required", "none", <<>>)
             ELSE IF IsDigits(config.apiKey)
             THEN Stop("none", "INVALID API KEY DETECTED", <<>>)
             ELSE IF keyAsked # <<>> /\ ~okKey
             THEN Stop("none", "none", keyAsked)
             ELSE IF config.authDomain # <<>>
                     /\ Head(config.authDomain) \in {"http://", "https://"}
             THEN Stop("none", "INVALID AUTH DOMAIN", keyAsked)
             ELSE IF Includes(config.authDomain, ".netlify.app")
                     \/ Includes(config.authDomain, ".vercel.app")
             THEN Stop("none", "INVALID AUTH DOMAIN", keyAsked)
             ELSE IF ~okReload
             THEN Stop("none", "none", Append(keyAsked, <<"reload", FALSE>>))
             ELSE [erp EXCEPT
                     !.handler = "handleConnect", !.saved = TRUE,
                     !.stored = JObj(<< <<"apiKey", JStr(cleanConfig.apiKey)>>,
                                        <<"projectId", JStr(cleanConfig.projectId)>>,
                                        <<"authDomain", JStr(cleanConfig.authDomain)>> >>),
                     !.reloaded = TRUE, !.mounted = FALSE, !.toast = "none",
                     !.alert = "none",
                     !.asked = Append(keyAsked, <<"reload", TRUE>>)]
    /\ UNCHANGED <<adminRest, modal, mgmt>>

(* okReload: what the user answers to the dialog, if put. *)
handleImportSubmit(okReload) ==
    /\ erp.mounted
    /\ LET cleanedCode == Trim(erp.importCode)
           decoded == Atob(cleanedCode)
           parsed == IF decoded.kind = "throw" THEN Throw ELSE JSONParse(decoded.value)
           checked == IF parsed.kind = "throw" THEN Throw ELSE ValidConfig(parsed.value)
           Stop(toast) ==
               [erp EXCEPT !.handler = "handleImportSubmit", !.saved = FALSE,
                           !.reloaded = FALSE, !.toast = toast, !.alert = "none",
                           !.asked = <<>>]
       IN  erp' =
             IF cleanedCode = <<>> THEN Stop("Please paste the code first.")
             ELSE IF checked.kind = "throw"
             THEN Stop("Invalid Configuration Code. Please check and try again.")
             ELSE [erp EXCEPT
                     !.handler = "handleImportSubmit", !.saved = TRUE,
                     !.stored = checked.value, !.reloaded = okReload,
                     !.mounted = ~okReload, !.toast = "none", !.alert = "none",
                     !.asked = << <<"Configuration Verified", okReload>> >>]
    /\ UNCHANGED <<adminRest, modal, mgmt>>

NextERP ==
    \/ MountERP
    \/ \E name \in {"apiKey", "projectId", "authDomain"} :
           \E value \in {f[name] : f \in ConfigForms} : handleChange(name, value)
    \/ \E value \in ImportCodes : setImportCode(value)
    \/ \E okKey, okReload \in BOOLEAN : handleConnect(okKey, okReload)
    \/ \E okReload \in BOOLEAN : handleImportSubmit(okReload)

SpecERP == Init /\ [][NextERP]_vars

----------------------------------------------------------------------------
(* CustomerManagement of src/components/admin/ERPNetwork.tsx:
   handleSaveCustomer, handleMembershipUpgrade and handleDeleteCustomer.
   Each is an async function: it calls the database, waits, and then calls
   setCustomers with a list made from the customers of its own closure. *)

(* The lists the page is mounted with. *)
ManagedLists ==
    {<<>>,
     << [id |-> "c1", name |-> CustomerName("c1"), isMember |-> FALSE] >>,
     << [id |-> "c1", name |-> CustomerName("c1"), isMember |-> FALSE],
        [id |-> "c2", name |-> CustomerName("c2"), isMember |-> TRUE] >>}

(* The list a handler gives to setCustomers, made from its own closure:
   customers.map(c => c.id === customer.id ? customer : c), [...customers,
   customer] and customers.filter(c => c.id !== customerId). *)
UpdatedCustomers(h) ==
    LET list == h.customers
        mapped == [k \in 1..Len(list) |->
                      IF list[k].id = h.customer.id THEN h.customer ELSE list[k]]
    IN  CASE h.handler = "handleSaveCustomer" ->
               IF h.editingCustomer # NoCustomer THEN mapped
               ELSE Append(list, h.customer)
          [] h.handler = "handleMembershipUpgrade" -> mapped
          [] h.handler = "handleDeleteCustomer" ->
               SelectSeq(list, LAMBDA c : c.id # h.customer.id)

(* A handler runs to its await: the call to the database is made and the
   handler waits with the closure of the render that is on the screen.  At
   most MaxThreads handlers are followed while the page is mounted; render
   counts the setCustomers done before the handler was made. *)
Await(handler, customer, call) ==
    /\ Len(mgmt.running) + Len(mgmt.completed) < MaxThreads
    /\ mgmt' = [mgmt EXCEPT
                  !.database = Append(mgmt.database, <<call, customer.id>>),
                  !.running = Append(mgmt.running,
                      [handler |-> handler, customer |-> customer,
                       customers |-> mgmt.customers,
                       editingCustomer |-> mgmt.editingCustomer,
                       render |-> Len(mgmt.completed)])]

MountCustomers ==
    /\ ~mgmt.mounted
    /\ \E list \in ManagedLists :
           mgmt' = [NoMgmt EXCEPT !.mounted = TRUE, !.customers = list]
    /\ UNCHANGED <<adminRest, modal, erp>>

(* Add Customer: setEditingCustomer(null); setIsFormOpen(true), and Edit
   Customer of a row: setEditingCustomer(customer); setIsFormOpen(true) *)
setEditingCustomer(customer) ==
    /\ mgmt.mounted
    /\ ~mgmt.isFormOpen
    /\ \/ customer = NoCustomer
       \/ \E k \in 1..Len(mgmt.customers) : customer = mgmt.customers[k]
    /\ mgmt' = [mgmt EXCEPT !.editingCustomer = customer, !.isFormOpen = TRUE]
    /\ UNCHANGED <<adminRest, modal, erp>>

(* Membership Card of a row: setMembershipCustomer(customer), and onClose *)
setMembershipCustomer(customer) ==
    /\ mgmt.mounted
    /\ ~mgmt.isFormOpen
    /\ customer # mgmt.membershipCustomer
    /\ \/ customer = NoCustomer
       \/ mgmt.membershipCustomer = NoCustomer
          /\ \E k \in 1..Len(mgmt.customers) : customer = mgmt.customers[k]
    /\ mgmt' = [mgmt EXCEPT !.membershipCustomer = customer]
    /\ UNCHANGED <<adminRest, modal, erp>>

(* handleSubmit of CustomerForm calls onSave with the form and the id of the
   customer edited, or a new id, which `cust_${Date.now()}` gives;
   handleSaveCustomer up to its await. *)
handleSaveCustomer(name, id) ==
    /\ mgmt.mounted
    /\ mgmt.isFormOpen
    /\ IF mgmt.editingCustomer # NoCustomer THEN id = mgmt.editingCustomer.id
       ELSE /\ \A k \in 1..Len(mgmt.customers) : mgmt.customers[k].id # id
            /\ \A k \in 1..Len(mgmt.running) : mgmt.running[k].customer.id # id
            /\ \A k \in 1..Len(mgmt.completed) : mgmt.completed[k].customer.id # id
    /\ Await("handleSaveCustomer",
             [id |-> id, name |-> name, isMember |-> mgmt.editingCustomer.isMember],
             "saveCustomer")
    /\ UNCHANGED <<adminRest, modal, erp>>

(* verifyOtp of MembershipModal calls onUpgrade with { ...customer, isMember:
   true }; handleMembershipUpgrade up to its await. *)
handleMembershipUpgrade ==
    /\ mgmt.mounted
    /\ mgmt.membershipCustomer # NoCustomer
    /\ ~mgmt.membershipCustomer.isMember
    /\ Await("handleMembershipUpgrade",
             [mgmt.membershipCustomer EXCEPT !.isMember = TRUE], "saveCustomer")
    /\ UNCHANGED <<adminRest, modal, erp>>

(* Delete Customer of a row; ok is the answer to window.confirm.  Declined,
   the handler does nothing. *)
handleDeleteCustomer(k, ok) ==
    /\ mgmt.mounted
    /\ ~mgmt.isFormOpen
    /\ mgmt.membershipCustomer = NoCustomer
    /\ k \in 1..Len(mgmt.customers)
    /\ IF ok
       THEN Await("handleDeleteCustomer",
                  [id |-> mgmt.customers[k].id, name |-> "", isMember |-> FALSE],
                  "deleteCustomer")
       ELSE mgmt' = mgmt
    /\ UNCHANGED <<adminRest, modal, erp>>

(* The database answers the i-th handler that waits, and it goes on after
   its await: setCustomers, the toast, and for handleSaveCustomer
   setIsFormOpen(false) and setEditingCustomer(null). *)
AfterAwait(i) ==
    /\ mgmt.mounted
    /\ i \in 1..Len(mgmt.running)
    /\ LET h == mgmt.running[i]
           saved == h.handler = "handleSaveCustomer"
       IN  mgmt' = [mgmt EXCEPT
                     !.customers = UpdatedCustomers(h),
                     !.running = SubSeq(mgmt.running, 1, i - 1)
                                 \o SubSeq(mgmt.running, i + 1, Len(mgmt.running)),
                     !.completed = Append(mgmt.completed, h),
                     !.isFormOpen = IF saved THEN FALSE ELSE mgmt.isFormOpen,
                     !.editingCustomer =
                         IF saved THEN NoCustomer ELSE mgmt.editingCustomer,
                     !.toast =
                         CASE h.handler = "handleDeleteCustomer" -> "Customer deleted."
                           [] saved /\ h.editingCustomer # NoCustomer ->
                                "Customer updated successfully!"
                           [] saved -> "Customer added successfully!"
                           [] OTHER -> mgmt.toast]
    /\ UNCHANGED <<adminRest, modal, erp>>

NextCustomers ==
    \/ MountCustomers
    \/ \E k \in 0..MaxCustomers :
           setEditingCustomer(IF k \in 1..Len(mgmt.customers) THEN mgmt.customers[k]
                              ELSE NoCustomer)
    \/ \E k \in 0..MaxCustomers :
           setMembershipCustomer(IF k \in 1..Len(mgmt.customers) THEN mgmt.customers[k]
                                 ELSE NoCustomer)
    \/ \E name \in {CustomerName("c1"), CustomerName("c3")} :
           \E id \in {"c1", "c2", "c3"} : handleSaveCustomer(name, id)
    \/ handleMembershipUpgrade
    \/ \E k \in 1..MaxCustomers : \E ok \in BOOLEAN : handleDeleteCustomer(k, ok)
    \/ \E i \in 1..MaxThreads : AfterAwait(i)

SpecCustomers == Init /\ [][NextCustomers]_vars

----------------------------------------------------------------------------
(* Properties *)

Range(t) == {t[i] : i \in 1..Len(t)}

(* The argument of parseAIResponse in the invocation that has settled. *)
ParsedText == Or(ResponseText(response), EmptyTextDefault(op)).s

(* parseAIResponse ran in the invocation that has returned. *)
Parsed == pc = "done" /\ parserInput # NotParsed

(* C1: whatever the operation and however the call ended (text, empty text,
   fenced text, invalid text, rejection, no API key), the operation returns a
   value: no state has an operation that raised. *)
C1_NoFaultEscapes ==
    /\ result.kind # "throw"
    /\ pc = "done" => result.kind = "return"

(* C1 witness: a structured operation has returned on a response that is
   fenced and is not a JSON document. *)
C1_Witness ==
    /\ pc = "done"
    /\ op = "processVoiceCommand"
    /\ response = WithText(<<FENCE, PROSE>>)
    /\ result.kind = "return"

(* What each operation returns when the call is rejected. *)
RejectionFallback(o) ==
    CASE o = "fetchMarketNews" -> Lit("Market news currently unavailable.")
      [] o = "fetchPriceVariationSuggestion" ->
            Lit("Could not fetch price variation suggestion.")
      [] o = "askShopAI" ->
            Lit("Sorry, I'm having trouble connecting to my brain right now.")
      [] o = "analyzeCustomerFace" -> Lit("Analysis unavailable")
      [] o = "analyzeImageForBilling" -> JArr(<<>>)
      [] o = "processVoiceCommand" -> JNull
      [] o = "identifyCustomerFromImage" -> JNull
      [] o = "getSmartUpsellSuggestion" -> JNull
      [] o = "generateSmartInsights" -> UnavailableInsights

(* C2: when the call fails, the operation returns its fallback: the empty
   sequence for analyzeImageForBilling, null for processVoiceCommand and
   identifyCustomerFromImage, a fixed string for each narrative operation; it
   raises nothing. *)
C2_RejectionGivesFallback ==
    pc = "done" /\ response = Rejected =>
        result = Return(RejectionFallback(op))

(* C2 witness: analyzeImageForBilling has returned the empty sequence after a
   rejected call. *)
C2_Witness ==
    /\ pc = "done"
    /\ op = "analyzeImageForBilling"
    /\ response = Rejected
    /\ result = Return(JArr(<<>>))

(* What each structured operation returns when the text is no JSON document. *)
ParseFailureFallback(o) ==
    CASE o = "analyzeImageForBilling" -> JArr(<<>>)
      [] o = "processVoiceCommand" -> JNull
      [] o = "identifyCustomerFromImage" -> JNull
      [] o = "generateSmartInsights" -> NoDataInsights

(* C3: for a structured operation, a response text that is not a JSON
   document once the markers are removed gives the operation's fallback and
   no fault; analyzeImageForBilling gives the empty sequence. *)
C3_MalformedGivesFallback ==
    Parsed /\ JSONParse(parserInput).kind = "throw" =>
        result = Return(ParseFailureFallback(op))

(* C3 witness: analyzeImageForBilling has returned the empty sequence on a
   response of prose. *)
C3_Witness ==
    /\ pc = "done"
    /\ op = "analyzeImageForBilling"
    /\ response = WithText(<<PROSE>>)
    /\ result = Return(JArr(<<>>))

(* What the claim C4 says each operation returns on an empty response text. *)
EmptyTextFallback(o) ==
    CASE o = "fetchMarketNews" -> Lit("Market news currently unavailable.")
      [] o = "fetchPriceVariationSuggestion" -> Lit("Could not fetch suggestion.")
      [] o = "askShopAI" -> Lit("I couldn't generate an answer.")
      [] o = "analyzeCustomerFace" -> Lit("Customer detected")
      [] o = "analyzeImageForBilling" -> JArr(<<>>)
      [] o = "processVoiceCommand" -> JNull
      [] o = "identifyCustomerFromImage" -> JNull
      [] o = "getSmartUpsellSuggestion" -> JNull
      [] o = "generateSmartInsights" -> NoDataInsights

(* C4: when the call succeeds with an empty text, the operation returns its
   fallback: null for processVoiceCommand and identifyCustomerFromImage, the
   empty sequence for analyzeImageForBilling, the placeholder object for
   generateSmartInsights, the fixed string (null for the upsell) for the text
   operations. *)
C4_EmptyTextGivesFallback ==
    pc = "done" /\ response.kind = "fulfilled" /\ ~Truthy(ResponseText(response)) =>
        result = Return(EmptyTextFallback(op))

(* C5: the marker removal of parseAIResponse is idempotent: applied to the
   text it handed to the parser, it gives that text again. *)
C5_SanitizeIdempotent ==
    Parsed => cleaned(parserInput) = parserInput

(* C6 as stated: a text without any marker reaches the parser exactly as it
   was received. *)
C6_UnfencedUnchanged ==
    Parsed /\ FENCE \notin Range(ParsedText) => parserInput = ParsedText

(* out is t without the white space at its two ends. *)
IsTrimOf(out, t) ==
    /\ out = <<>> \/ (out[1] \notin TrimSpace /\ out[Len(out)] \notin TrimSpace)
    /\ \E i \in 1..Len(t) + 1 :
          /\ out = SubSeq(t, i, i + Len(out) - 1)
          /\ i + Len(out) - 1 <= Len(t)
          /\ \A j \in 1..Len(t) : (j < i \/ j >= i + Len(out)) => t[j] \in TrimSpace

(* C6 amended: a text without any marker reaches the parser with the white
   space at its two ends removed and nothing else changed; it is unchanged
   when it has no white space at either end. *)
C6_UnfencedTrimmed ==
    Parsed /\ FENCE \notin Range(ParsedText) =>
        /\ IsTrimOf(parserInput, ParsedText)
        /\ (ParsedText = <<>> \/ (ParsedText[1] \notin TrimSpace
                                   /\ ParsedText[Len(ParsedText)] \notin TrimSpace))
             => parserInput = ParsedText

(* C6 witness: a text without markers and with white space before its
   document has been parsed. *)
C6_Witness ==
    /\ Parsed
    /\ ParsedText = <<WS, D_CHECKOUT>>
    /\ parserInput = <<D_CHECKOUT>>

(* What the claim C7 says is handed to the parser: one leading marker, with
   its format name if any, and one trailing marker are removed where present,
   and no white space is left at either end. *)
SanitizedAsClaimed(t) ==
    LET u == Trim(t)
        v == IF StartsWith(u, <<FENCE, FMT>>) THEN SubSeq(u, 3, Len(u))
             ELSE IF StartsWith(u, <<FENCE>>) THEN SubSeq(u, 2, Len(u))
             ELSE u
        w == IF v # <<>> /\ v[Len(v)] = FENCE THEN SubSeq(v, 1, Len(v) - 1) ELSE v
    IN  Trim(w)

(* C7: at most one leading marker (with or without the format name) and at
   most one trailing marker are removed, each whenever it is present, and the
   text handed to the parser has no white space at either end. *)
C7_SanitizeAsClaimed ==
    Parsed =>
        /\ parserInput = SanitizedAsClaimed(ParsedText)
        /\ parserInput = <<>> \/ (parserInput[1] \notin TrimSpace
                                  /\ parserInput[Len(parserInput)] \notin TrimSpace)

(* t is the document d between two markers: white space of `outer' around
   the block, the format name or not after the opening marker, white space
   of `inner' between the markers and the document. *)
IsWrapped(t, d, outer, inner) ==
    \E a, b \in 1..Len(t) :
        /\ a < b
        /\ t[a] = FENCE
        /\ t[b] = FENCE
        /\ \A i \in 1..Len(t) : (i < a \/ i > b) => t[i] \in outer
        /\ \E c \in (a + 1)..(b - 1) :
              /\ t[c] = d
              /\ \A i \in (a + 1)..(c - 1) : t[i] \in inner \/ (i = a + 1 /\ t[i] = FMT)
              /\ \A i \in (c + 1)..(b - 1) : t[i] \in inner

(* The response text is d wrapped, and the operation has returned what it
   returns on d alone. *)
SameAsUnwrapped(outer, inner) ==
    \A d \in Documents :
        /\ pc = "done"
        /\ op \in StructuredOperations
        /\ response.kind = "fulfilled"
        /\ response.defined
        /\ IsWrapped(response.text, d, outer, inner)
        => result = Run(op, apiKey, customers, cartItemNames, WithText(<<d>>))

(* C8 as stated: for a structured operation and a JSON document p, the
   response p between markers (with or without the format name, with any
   white space around) gives the result that the response p gives. *)
C8_WrappedSameAsUnwrapped == SameAsUnwrapped(TrimSpace, TrimSpace)

(* C8 where the white space between a marker and the document is white space
   of JSON (space, tab, line feed, carriage return), and any white space
   around the whole block. *)
C8_WrappedJsonSpaceSameAsUnwrapped == SameAsUnwrapped(TrimSpace, JsonSpace)

(* C8 on the usual wrapping: processVoiceCommand has returned the CHECKOUT intent on a
   response that wraps it in markers with the format name and a newline. *)
C8_UsualWrapping ==
    /\ pc = "done"
    /\ op = "processVoiceCommand"
    /\ response = WithText(<<FENCE, FMT, WS, D_CHECKOUT, FENCE>>)
    /\ Get(result.value, "type") = Lit("CHECKOUT")

(* v is one of the three intents of the voice parser. *)
IsIntent(v) ==
    /\ v.k = "object"
    /\ \/ /\ FieldNames(v) = {"type"}
          /\ Len(v.f) = 1
          /\ Get(v, "type") \in {Lit("CHECKOUT"), Lit("CLEAR_BILL")}
       \/ /\ FieldNames(v) = {"type", "productId", "quantity"}
          /\ Len(v.f) = 3
          /\ Get(v, "type") = Lit("ADD_ITEM")
          /\ Get(v, "productId").k = "string"
          /\ Get(v, "quantity").k = "number"
          /\ Get(v, "quantity").n > 0

(* C9: what processVoiceCommand returns is null or one of the three intents
   (ADD_ITEM with a productId and a quantity above 0, CHECKOUT, CLEAR_BILL);
   a response of any other shape gives null. *)
C9_VoiceResultIsIntentOrNull ==
    pc = "done" /\ op = "processVoiceCommand" =>
        /\ result.kind = "return"
        /\ result.value = JNull \/ IsIntent(result.value)

(* The intent each well-formed document of the voice parser states. *)
IntentOf(d) ==
    CASE d = D_CHECKOUT -> JObj(<< <<"type", Lit("CHECKOUT")>> >>)
      [] d = D_CLEAR    -> JObj(<< <<"type", Lit("CLEAR_BILL")>> >>)
      [] d = D_ADD      -> JObj(<< <<"type", Lit("ADD_ITEM")>>,
                                   <<"productId", Lit("p1")>>,
                                   <<"quantity", JNum(5)>> >>)

(* C10: when the response, markers removed, is a well-formed intent,
   processVoiceCommand returns that intent, its type, productId and quantity
   as given: CHECKOUT for {"type":"CHECKOUT"}, ADD_ITEM of p1 with quantity
   0.5 for that document. *)
C10_VoiceReturnsIntent ==
    \A d \in {D_CHECKOUT, D_CLEAR, D_ADD} :
        /\ Parsed
        /\ op = "processVoiceCommand"
        /\ DropTrailing(DropLeading(parserInput, JsonSpace), JsonSpace) = <<d>>
        => result = Return(IntentOf(d))

(* C10 witness: processVoiceCommand has returned ADD_ITEM of p1 with quantity
   0.5 on the fenced document. *)
C10_Witness ==
    /\ pc = "done"
    /\ op = "processVoiceCommand"
    /\ response = WithText(<<FENCE, FMT, D_ADD, FENCE>>)
    /\ Get(result.value, "productId") = Lit("p1")
    /\ Get(result.value, "quantity") = JNum(5)

----------------------------------------------------------------------------
(* Properties of what is returned from a well-formed response *)

(* The value JSON.parse gave in the invocation that has returned, undefined
   when it threw or was not called. *)
ParsedValue ==
    IF Parsed /\ JSONParse(parserInput).kind = "return"
    THEN JSONParse(parserInput).value
    ELSE JUndefined

ProductIds == {Lit(products[k].id) : k \in 1..Len(products)}

(* C11: analyzeImageForBilling returns no entry whose productId is absent
   from the inventory it was given: of the parsed array, those entries are
   dropped and the others are returned in their order. *)
C11_BillingDropsUnknownProducts ==
    pc = "done" /\ op = "analyzeImageForBilling" /\ ParsedValue.k = "array" =>
        LET InInventory(e) == Get(e, "productId") \in ProductIds
        IN  result = Return(JArr(SelectSeq(ParsedValue.a, InInventory)))

(* C12: every entry analyzeImageForBilling returns has a number as quantity,
   and an entry the response gives without quantity is returned with
   quantity 1. *)
C12_BillingQuantityDefaultsToOne ==
    pc = "done" /\ op = "analyzeImageForBilling" /\ ParsedValue.k = "array" =>
        /\ result.kind = "return"
        /\ result.value.k = "array"
        /\ \A k \in 1..Len(result.value.a) :
              Get(result.value.a[k], "quantity").k = "number"
        /\ \A k \in 1..Len(ParsedValue.a) :
              "quantity" \notin FieldNames(ParsedValue.a[k]) =>
                  \E j \in 1..Len(result.value.a) :
                      /\ Get(result.value.a[j], "productId")
                            = Get(ParsedValue.a[k], "productId")
                      /\ Get(result.value.a[j], "quantity") = JNum(10)

(* C13: identifyCustomerFromImage returns null or the id of a customer of
   the list it was given that has a stored descriptor; any other matchedId
   (of a customer without descriptor, of no customer, the string "null", a
   number) gives null. *)
C13_IdentifyReturnsKnownIdOrNull ==
    pc = "done" /\ op = "identifyCustomerFromImage" =>
        /\ result.kind = "return"
        /\ \/ result.value = JNull
           \/ \E k \in 1..Len(customers) :
                 /\ customers[k].faceAttributes # ""
                 /\ result.value = Lit(customers[k].id)

InsightFields == {"stockPrediction", "staffPerformance", "salesHeatmap"}

(* C14: the object generateSmartInsights returns has the three fields
   stockPrediction, staffPerformance and salesHeatmap; a field the response
   omits is "No data" (the empty map for salesHeatmap) and a field it gives
   is returned as given. *)
C14_InsightsHasAllFields ==
    pc = "done" /\ op = "generateSmartInsights" =>
        /\ result.kind = "return"
        /\ InsightFields \subseteq FieldNames(result.value)
        /\ ParsedValue.k = "object" =>
              \A name \in InsightFields :
                  Get(result.value, name) =
                      IF name \in FieldNames(ParsedValue)
                      THEN Get(ParsedValue, name)
                      ELSE Get(NoDataInsights, name)

(* C15: every score of the salesHeatmap generateSmartInsights returns is
   within 0..100 (in tenths: 0..1000). *)
C15_HeatmapScoresInRange ==
    pc = "done" /\ op = "generateSmartInsights" =>
        LET map == Get(result.value, "salesHeatmap")
        IN  \A k \in 1..Len(map.a) :
                /\ Get(map.a[k], "score").k = "number"
                /\ Get(map.a[k], "score").n \in 0..1000

(* What each text operation returns when the call gave no usable text. *)
NoTextFallback(o) ==
    CASE o = "fetchMarketNews" -> Lit("Market news currently unavailable.")
      [] o = "fetchPriceVariationSuggestion" -> Lit("Could not fetch suggestion.")
      [] o = "askShopAI" -> Lit("I couldn't generate an answer.")
      [] o = "analyzeCustomerFace" -> Lit("Customer detected")
      [] o = "getSmartUpsellSuggestion" -> JNull

(* C16: a text operation never returns a string that is empty once trimmed:
   a response of white space only gives the operation's fallback. *)
C16_TextResultNotBlank ==
    pc = "done" /\ op \in TextOperations =>
        /\ result.kind = "return"
        /\ result.value.k = "string" => Trim(result.value.s) # <<>>
        /\ (response.kind = "fulfilled" /\ Trim(response.text) = <<>>) =>
              result.value = NoTextFallback(op)

----------------------------------------------------------------------------
(* Properties of the call *)

(* The precondition of the operation invoked is unmet. *)
PreconditionUnmet ==
    \/ op = "identifyCustomerFromImage"
       /\ \A k \in 1..Len(customers) : customers[k].faceAttributes = ""
    \/ op = "getSmartUpsellSuggestion" /\ cartItemNames = <<>>

(* C17: with its precondition unmet (no customer with a stored descriptor,
   an empty cart) the operation returns null and no call of the service is
   made: it is never at the await, nothing was sent and nothing received. *)
C17_NoCallWhenPreconditionUnmet ==
    PreconditionUnmet =>
        /\ pc = "done"
        /\ result = Return(JNull)
        /\ calls = 0
        /\ ~request.sent
        /\ response = Pending

(* C17 witness: with API_KEY set, identifyCustomerFromImage has returned
   null for customers none of whom has a descriptor. *)
C17_Witness ==
    /\ apiKey
    /\ pc = "done"
    /\ op = "identifyCustomerFromImage"
    /\ customers = <<Customer("c2", "")>>
    /\ result = Return(JNull)
    /\ calls = 0

(* C18: an invocation makes at most one call of the service and receives at
   most one response; once the call has settled (rejected, empty, not
   parsed, of the wrong shape) the operation has returned and the count
   stays at one. *)
C18_AtMostOneCall ==
    /\ calls \in {0, 1}
    /\ pc = "calling" => calls = 1 /\ response = Pending
    /\ response # Pending => pc = "done" /\ calls = 1

(* C18 witness: an operation has returned after a rejected call, having
   made one call. *)
C18_Witness ==
    /\ pc = "done"
    /\ op = "processVoiceCommand"
    /\ response = Rejected
    /\ calls = 1

(* The values of an object's fields. *)
FieldValues(v) == {v.f[i][2] : i \in 1..Len(v.f)}

(* C19: for a non-empty inventory, the inventory context in the request of
   processVoiceCommand has one entry per product, made of the product's id
   and name only: no price, stock, date or brand of any product is in it. *)
C19_VoiceContextIsIdAndName ==
    op = "processVoiceCommand" /\ request.sent /\ products # <<>> =>
        /\ Len(request.inventory) = Len(products)
        /\ \A k \in 1..Len(products) :
              LET entry == request.inventory[k]
              IN  /\ Len(entry.f) = 2
                  /\ FieldNames(entry) = {"i", "n"}
                  /\ Get(entry, "i") = Lit(products[k].id)
                  /\ Get(entry, "n") = Lit(products[k].name)
        /\ \A k, j \in 1..Len(products) :
              FieldValues(request.inventory[k]) \cap
                  {Lit(products[j].price), Lit(products[j].stock),
                   Lit(products[j].expiryDate), Lit(products[j].brand)} = {}

(* C19 witness: processVoiceCommand is at its call with an inventory of two
   products. *)
C19_Witness ==
    /\ pc = "calling"
    /\ op = "processVoiceCommand"
    /\ products = <<P1, P2>>
    /\ request.sent
    /\ Len(request.inventory) = 2

(* C20: the request of generateSmartInsights holds at most 20 sales, the last
   20 of those supplied in their order (all of them when there are fewer),
   and its inventory context holds the name and stock of each product
   only. *)
C20_InsightsSendsLastTwentySales ==
    op = "generateSmartInsights" /\ request.sent =>
        LET sent == request.sales
            skipped == Len(sales) - Len(sent)
        IN  /\ Len(sent) <= 20
            /\ Len(sent) = IF Len(sales) <= 20 THEN Len(sales) ELSE 20
            /\ \A k \in 1..Len(sent) : sent[k] = sales[skipped + k]
            /\ Len(request.inventory) = Len(products)
            /\ \A k \in 1..Len(products) :
                  /\ Len(request.inventory[k].f) = 2
                  /\ FieldNames(request.inventory[k]) = {"name", "stock"}
                  /\ Get(request.inventory[k], "name") = Lit(products[k].name)
                  /\ Get(request.inventory[k], "stock") = Lit(products[k].stock)

(* C20 witness: generateSmartInsights is at its call with 22 sales, of which
   the third is the first one sent. *)
C20_Witness ==
    /\ pc = "calling"
    /\ op = "generateSmartInsights"
    /\ Len(sales) = 22
    /\ Len(request.sales) = 20
    /\ request.sales[1] = Sale(3)
    /\ products = <<P1, P2>>

(* C21: the customer context in the request of identifyCustomerFromImage has
   one entry for each customer with a stored descriptor, in their order, and
   none for a customer without one; each entry is that customer's id and
   descriptor and nothing else (no name, no mobile number). *)
C21_IdentifyContextIsIdAndDescriptor ==
    op = "identifyCustomerFromImage" /\ request.sent =>
        LET HasDescriptor(c) == c.faceAttributes # ""
            known == SelectSeq(customers, HasDescriptor)
            sent == request.candidates
        IN  /\ Len(sent) = Len(known)
            /\ \A k \in 1..Len(sent) :
                  /\ DOMAIN sent[k] = {"id", "d"}
                  /\ sent[k].id = known[k].id
                  /\ sent[k].d = known[k].faceAttributes
                  /\ sent[k].d # ""
                  /\ \A j \in 1..Len(customers) :
                        {sent[k][f] : f \in DOMAIN sent[k]} \cap
                            {customers[j].name, customers[j].mobile} = {}

(* C21 witness: identifyCustomerFromImage is at its call with a customer
   without descriptor between two that have one, and has sent two entries. *)
C21_Witness ==
    /\ pc = "calling"
    /\ op = "identifyCustomerFromImage"
    /\ Len(customers) = 3
    /\ customers[1].id = "c1"
    /\ customers[2].id = "c2"
    /\ customers[3].id = "c3"
    /\ Len(request.candidates) = 2
    /\ request.candidates[2].id = "c3"

----------------------------------------------------------------------------
(* Properties of the course of an invocation *)

StageOrder == <<"Idle", "Building", "Calling", "Sanitizing", "Validating">>
TerminalStages == {"Done", "Fallback"}

(* The place of a stage in the order; the two terminal stages come last. *)
StageRank(st) ==
    IF st \in TerminalStages THEN Len(StageOrder) + 1
    ELSE CHOOSE k \in 1..Len(StageOrder) : StageOrder[k] = st

(* The stages entered so far go forward only, the invocation has returned
   exactly when the last of them is Done or Fallback, and the calls made are
   the entries into Calling, none of them after Validating. *)
StagesForward ==
    /\ stages[1] = "Idle"
    /\ \A k \in 1..Len(stages) - 1 : StageRank(stages[k]) < StageRank(stages[k + 1])
    /\ pc = "done" <=> stages[Len(stages)] \in TerminalStages
    /\ pc = "calling" <=> stages[Len(stages)] = "Calling"
    /\ calls = Cardinality({k \in 1..Len(stages) : stages[k] = "Calling"})
    /\ \A k, j \in 1..Len(stages) :
          stages[k] = "Validating" /\ stages[j] = "Calling" => j < k

(* From a terminal stage the invocation goes nowhere: the only step is the
   caller's, to the Idle of the next invocation, and it leaves no call
   behind. *)
TerminalIsFinal ==
    stages[Len(stages)] \in TerminalStages =>
        /\ stages' = <<"Idle">>
        /\ calls' = 0
        /\ pc' = "idle"

(* C22: an invocation goes through Idle, Building, Calling, Sanitizing,
   Validating forward only and ends in exactly one of Done and Fallback: no
   stage is entered twice, no step leads back, no call is made once
   validation has started, and nothing follows a terminal stage. *)
C22_StagesForwardOnly == []StagesForward /\ [][TerminalIsFinal]_vars

(* C22 witness: analyzeImageForBilling has gone through every stage to Done
   with one call. *)
C22_Witness ==
    /\ op = "analyzeImageForBilling"
    /\ stages = <<"Idle", "Building", "Calling", "Sanitizing", "Validating", "Done">>
    /\ calls = 1
    /\ result = Return(DocumentValue(D_ITEMS))

(* C23: provided the call that is awaited settles in the end, an invocation
   that is at its await reaches its return and hands a value to its caller;
   an invocation that makes no call has returned at once. *)
C23_InvocationReturns ==
    /\ (pc = "calling") ~> (pc = "done" /\ result.kind = "return")
    /\ [](pc \in {"idle", "calling", "done"})

(* C23 witness: an operation has returned a value after its call settled
   with a text. *)
C23_Witness ==
    /\ pc = "done"
    /\ op = "generateSmartInsights"
    /\ calls = 1
    /\ response = WithText(<<D_INSIGHTS>>)
    /\ result = Return(DocumentValue(D_INSIGHTS))

----------------------------------------------------------------------------
(* Properties of the fallback *)

(* A failure has occurred in the invocation that has returned: API_KEY is
   not set, the call was rejected, the response has no text or an empty one,
   or the text is no JSON document. *)
FailureOccurred ==
    /\ pc = "done"
    /\ \/ ~apiKey
       \/ response = Rejected
       \/ response.kind = "fulfilled" /\ ~Truthy(ResponseText(response))
       \/ Parsed /\ JSONParse(parserInput).kind = "throw"

(* C24: each operation has one fallback value: whichever failure occurred
   (no API key, a rejected call, an empty response, a text that does not
   parse), the operation returns what it returns without an API key. *)
C24_FallbackIsOneValue ==
    FailureOccurred => result = Run(op, FALSE, customers, cartItemNames, Pending)

(* C26: while API_KEY is not set, every operation invoked has returned the
   value of its catch block (null at once for an empty cart), no call of the
   service was made, nothing was sent and nothing was raised. *)
C26_NoKeyGivesFallbackWithoutCall ==
    ~apiKey =>
        /\ pc \in {"idle", "done"}
        /\ calls = 0
        /\ ~request.sent
        /\ response = Pending
        /\ pc = "done" => result = Return(RejectionFallback(op))

(* C26 witness: without API_KEY, identifyCustomerFromImage has returned null
   for a customer list with a stored descriptor, with no call made. *)
C26_Witness ==
    /\ ~apiKey
    /\ pc = "done"
    /\ op = "identifyCustomerFromImage"
    /\ Len(candidateData(customers)) = 1
    /\ result = Return(JNull)
    /\ calls = 0

----------------------------------------------------------------------------
(* Properties of invocations in flight at once *)

(* Every invocation that has returned has returned what its operation gives
   when run alone on the caller's data and on that invocation's own settled
   call, whatever the other invocations were given and wherever they are. *)
ResultsAreOwn ==
    \A i \in 1..MaxThreads :
        threads[i].pc = "done" =>
            /\ threads[i].customers = domain.customers
            /\ threads[i].products = domain.products
            /\ threads[i].result =
                  Run(threads[i].op, apiKey, domain.customers, <<>>,
                      threads[i].response)

(* C25: invocations in flight at once are independent: in every interleaving
   each one returns what it returns alone on its own inputs and its own
   response, and no step changes the data the caller supplied. *)
C25_ConcurrentInvocationsIndependent ==
    []ResultsAreOwn /\ [][domain' = domain]_vars

(* C25 witness: processVoiceCommand and analyzeImageForBilling were in
   flight together, both calls had settled before either was resumed, with
   different responses, and each has returned the value of its own. *)
C25_Witness ==
    /\ threads[1].op = "processVoiceCommand"
    /\ threads[1].pc = "done"
    /\ threads[1].response = WithText(<<D_ADD>>)
    /\ threads[1].result = Return(DocumentValue(D_ADD))
    /\ threads[2].op = "analyzeImageForBilling"
    /\ threads[2].pc = "settled"
    /\ threads[2].response = WithText(<<D_ITEMS>>)

----------------------------------------------------------------------------
(* Properties of MembershipModal *)

(* For a customer who is not a member: a step that calls onUpgrade or takes
   the step from verify to card starts where an OTP was sent and the OTP
   entered is the code generated, and what onUpgrade is given is that
   customer with isMember true. *)
UpgradeOnlyWhenVerified ==
    /\ modal.mounted
    /\ modal'.mounted
    /\ ~modal.customer.isMember
    /\ modal'.upgraded # modal.upgraded \/ (modal.step = "verify" /\ modal'.step = "card")
    => /\ modal.otpSent
       /\ modal.generatedOtp \in {ToDigits(code) : code \in OtpCodes}
       /\ modal.otp = modal.generatedOtp
       /\ modal'.step = "card"
       /\ modal'.upgraded = <<[modal.customer EXCEPT !.isMember = TRUE]>>

(* A verifyOtp with an OTP that is not the code leaves the step and the
   customer as they are and calls nothing; no verifyOtp is possible before
   an OTP was sent. *)
MismatchChangesNothing ==
    verifyOtp =>
        /\ modal.otpSent
        /\ modal.otp # modal.generatedOtp =>
              /\ modal'.step = modal.step
              /\ modal'.customer = modal.customer
              /\ modal'.upgraded = modal.upgraded
              /\ modal'.toast = "Invalid OTP"

(* C27: in MembershipModal, for a customer who is not a member, onUpgrade is
   called (with isMember true) and the step goes from verify to card only
   after sendOtp and with the OTP entered equal to the code generated last; a
   verifyOtp with another OTP changes neither the customer nor the step; and
   nothing is verified, nor can be, before an OTP was sent. *)
C27_UpgradeOnlyAfterOtpVerified ==
    /\ [][UpgradeOnlyWhenVerified]_vars
    /\ [][MismatchChangesNothing]_vars
    /\ [](~modal.otpSent => modal.upgraded = <<>> /\ ~ENABLED verifyOtp)

(* C27 witness: an OTP was sent to a customer who is not a member, the code
   was entered and verified, and onUpgrade was called with that customer as
   a member. *)
C27_Witness ==
    /\ modal.mounted
    /\ modal.customer = [id |-> "c1", isMember |-> FALSE]
    /\ modal.generatedOtp = <<1, 0, 1, 9>>
    /\ modal.otp = <<1, 0, 1, 9>>
    /\ modal.step = "card"
    /\ modal.upgraded = <<[id |-> "c1", isMember |-> TRUE]>>

(* A verifyOtp with a wrong OTP has happened and changed nothing. *)
C27_MismatchSeen ==
    /\ modal.mounted
    /\ modal.step = "verify"
    /\ modal.toast = "Invalid OTP"
    /\ modal.upgraded = <<>>

----------------------------------------------------------------------------
(* Properties of ERPNetwork *)

(* A handleConnect that calls saveERPConfig: the key and the project id of
   the form are not empty, the key is not made of digits only, a key that
   does not start with AIza was confirmed, an auth domain given has no scheme
   and is of no hosting site, the reload was confirmed, and the page
   reloads.  One that does not leaves what is stored as it is and does not
   reload. *)
ConnectSavesOnlyWhenValid ==
    (\E okKey, okReload \in BOOLEAN : handleConnect(okKey, okReload)) =>
        LET key == erp.config.apiKey
            dom == erp.config.authDomain
            asked == erp'.asked
        IN  IF erp'.saved
            THEN /\ key # <<>>
                 /\ erp.config.projectId # <<>>
                 /\ \E i \in 1..Len(key) : key[i] # "12345"
                 /\ key[1] # "AIza" =>
                       \E i \in 1..Len(asked) : asked[i] = <<"Suspicious API Key", TRUE>>
                 /\ dom # <<>> =>
                       /\ dom[1] \notin {"http://", "https://"}
                       /\ \A i \in 1..Len(dom) :
                             dom[i] \notin {".netlify.app", ".vercel.app"}
                 /\ asked # <<>>
                 /\ asked[Len(asked)] = <<"reload", TRUE>>
                 /\ erp'.reloaded
                 /\ Get(erp'.stored, "apiKey") = JStr(key)
            ELSE /\ erp'.stored = erp.stored
                 /\ ~erp'.reloaded
                 /\ erp'.mounted

(* C28: handleConnect calls saveERPConfig only when apiKey and projectId are
   not empty, apiKey is not digits only, an apiKey that does not start with
   AIza was confirmed, a given authDomain neither starts with http nor is of
   netlify.app or vercel.app, and the reload dialog was confirmed; on every
   other path what is stored is unchanged and nothing reloads. *)
C28_ConnectSavesOnlyValidConfirmed ==
    /\ [][ConnectSavesOnlyWhenValid]_vars
    /\ [](erp.reloaded => erp.saved)

(* C28 witness: a key that does not start with AIza was confirmed, a
   placeholder auth domain was replaced, the reload was confirmed and the
   configuration was saved. *)
C28_Witness ==
    /\ erp.handler = "handleConnect"
    /\ erp.saved
    /\ erp.reloaded
    /\ erp.config.apiKey = <<"12345", "Sy1">>
    /\ erp.asked = << <<"Suspicious API Key", TRUE>>, <<"reload", TRUE>> >>
    /\ Get(erp.stored, "authDomain") = JStr(<<"rg-store", ".firebaseapp.com">>)
    /\ erp.config.authDomain[1] = "YOUR_"

(* A handleImportSubmit that saves: the code pasted is, white space apart,
   the base64 of a JSON document with a truthy apiKey and projectId, and that
   document is what is stored; it reloads if the dialog was confirmed and
   stays, the configuration saved, if it was declined.  One that does not
   save leaves what is stored as it is, does not reload and shows an
   error. *)
ImportSavesOnlyWhenValid ==
    (\E okReload \in BOOLEAN : handleImportSubmit(okReload)) =>
        IF erp'.saved
        THEN /\ Trim(erp.importCode) # <<>>
             /\ \E d \in Documents \cap Encoded :
                   /\ Trim(erp.importCode) = <<Btoa(d)>>
                   /\ Truthy(Get(DocumentValue(d), "apiKey"))
                   /\ Truthy(Get(DocumentValue(d), "projectId"))
                   /\ erp'.stored = DocumentValue(d)
             /\ Len(erp'.asked) = 1
             /\ erp'.reloaded <=> erp'.asked[1] = <<"Configuration Verified", TRUE>>
             /\ ~erp'.reloaded <=> erp'.mounted
        ELSE /\ erp'.stored = erp.stored
             /\ ~erp'.reloaded
             /\ erp'.mounted
             /\ erp'.toast \in
                   {"Please paste the code first.",
                    "Invalid Configuration Code. Please check and try again."}

(* C29: handleImportSubmit saves a configuration only when the code pasted is
   not blank, decodes as base64, parses as JSON and has a truthy apiKey and
   projectId; on a blank code and on every failure nothing is saved, nothing
   reloads and an error toast is shown; it reloads only after a save and the
   user's confirmation, and a declined confirmation leaves the configuration
   saved without a reload. *)
C29_ImportSavesOnlyValidCode ==
    /\ [][ImportSavesOnlyWhenValid]_vars
    /\ [](erp.handler = "handleImportSubmit" /\ erp.reloaded =>
             erp.saved /\ erp.asked = << <<"Configuration Verified", TRUE>> >>)

(* C29 witness: a valid code with white space around it was saved and the
   reload declined. *)
C29_Witness ==
    /\ erp.handler = "handleImportSubmit"
    /\ erp.importCode = <<WS, Btoa(D_CONFIG), WS>>
    /\ erp.saved
    /\ erp.stored = DocumentValue(D_CONFIG)
    /\ erp.asked = << <<"Configuration Verified", FALSE>> >>
    /\ ~erp.reloaded
    /\ erp.mounted

(* The code of a document without projectId was refused: nothing stored, an
   error shown. *)
C29_RefusalSeen ==
    /\ erp.handler = "handleImportSubmit"
    /\ erp.importCode = <<Btoa(D_CONFIG_NOPROJECT)>>
    /\ ~erp.saved
    /\ erp.stored = JNull
    /\ erp.toast = "Invalid Configuration Code. Please check and try again."

----------------------------------------------------------------------------
(* The effect of a handler that completed is not in the list: the customer
   it deleted is there, or the customer it added, or edited and found in its
   list, is not there with the data given. *)
LostUpdate(e, list) ==
    IF e.handler = "handleDeleteCustomer"
    THEN \E k \in 1..Len(list) : list[k].id = e.customer.id
    ELSE /\ \/ e.handler = "handleSaveCustomer" /\ e.editingCustomer = NoCustomer
            \/ \E k \in 1..Len(e.customers) : e.customers[k].id = e.customer.id
         /\ \A k \in 1..Len(list) : list[k] # e.customer

(* C30: when two of handleSaveCustomer, handleMembershipUpgrade and
   handleDeleteCustomer were started from the same render and both have
   completed, and no other handler is about the same customers, the
   customers list has the effect of both: the customer deleted is absent,
   the customer added or edited is present with its new data. *)
C30_NoLostUpdate ==
    mgmt.running = <<>> =>
        \A i, j \in 1..Len(mgmt.completed) :
            LET a == mgmt.completed[i]
                b == mgmt.completed[j]
            IN  /\ i # j
                /\ a.render = b.render
                /\ \A k \in 1..Len(mgmt.completed) :
                      k # i => mgmt.completed[k].customer.id # a.customer.id
                => ~LostUpdate(a, mgmt.customers)

====
